---------------------------- MODULE Spec2Model ----------------------------
(* A model of the taxonomy core of metanextviro:                           *)
(*   nextflow/bin/organize_contigs_by_taxonomy.py  (organize_contigs)      *)
(*   nextflow/bin/process_blast_results.py         (process_blast_results, *)
(*                                                  get_taxonomy_info)     *)
(* Text values are sequences of one-character strings, so that strip,      *)
(* replace and lower are computed and not assumed.  A numeric cell is <<>> *)
(* when it is missing (pandas NaN), <<n>> when it holds the number n, and  *)
(* <<"str", t>> when its column was read as text and it holds the text t.  *)
EXTENDS Integers, Sequences, FiniteSets

VARIABLES
    prog,                  \* which script runs: "organize" or "process"
    pc,                    \* position in the script
    run,                   \* how many times the script has been started
    blast_results_list,    \* organize_contigs: the result files, in argument order
    fasta_file,            \* the sequence collection (both scripts)
    dirs,                  \* directories of the output tree
    files,                 \* files of the output tree: [path, content]
    df,                    \* organize_contigs: the merged / best-hit frame
    contig_info,           \* organize_contigs: query_id -> classification record
    taxonomy_summary,      \* organize_contigs: per (type, family) statistics
    unclassified_contigs,  \* organize_contigs: records without classification
    rec_idx,               \* organize_contigs: next record of the FASTA loop
    summary_file,          \* classification_summary.txt: <<>> or <<content>>
    first_run_files,       \* the output tree as the first run left it
    blast_file,            \* process_blast_results: the rows of the BLAST file
    df_best_hits,          \* process_blast_results: one row per query_id
    row_idx,               \* process_blast_results: row whose tax_id is resolved
    tax_idx,               \* get_taxonomy_info: next identifier of the list
    merged_taxonomy,       \* get_taxonomy_info: the lineage merged so far
    taxonomy_info,         \* process_blast_results: lineages resolved so far
    output_file            \* process_blast_results: what was saved

vars == <<prog, pc, run, blast_results_list, fasta_file, dirs, files,
          summary_file, df, contig_info, taxonomy_summary, unclassified_contigs, rec_idx,
          first_run_files, blast_file, df_best_hits, row_idx, tax_idx,
          merged_taxonomy, taxonomy_info, output_file>>

org_vars == <<df, contig_info, taxonomy_summary, unclassified_contigs, rec_idx>>

proc_vars == <<df_best_hits, row_idx, tax_idx, merged_taxonomy, taxonomy_info,
               output_file>>

input_vars == <<prog, blast_results_list, fasta_file, blast_file>>

-----------------------------------------------------------------------------
(* Bounds of the model.                                                    *)

MaxQuery == 2        \* query ids are 1..MaxQuery
MaxLen == 2          \* alignment_length values are 1..MaxLen
MaxScore == 2        \* bit_score values are 1..MaxScore
MaxTaxIds == 2       \* identifiers in one tax_id field

-----------------------------------------------------------------------------
(* Text: Python str operations on character sequences.                     *)

Upper == <<"A","B","C","D","E","F","G","H","I","J","K","L","M",
           "N","O","P","Q","R","S","T","U","V","W","X","Y","Z">>

Lower == <<"a","b","c","d","e","f","g","h","i","j","k","l","m",
           "n","o","p","q","r","s","t","u","v","w","x","y","z">>

Digits == <<"0","1","2","3","4","5","6","7","8","9">>

\* The characters in code-point order, which is the order Python compares by.
Chars == <<" ", "/">> \o Digits \o Upper \o <<"_">> \o Lower

Code(c) == CHOOSE i \in 1..Len(Chars) : Chars[i] = c

SetMin(S) == CHOOSE x \in S : \A y \in S : x <= y

SetMax(S) == CHOOSE x \in S : \A y \in S : x >= y

\* The lower-case letter of every upper-case letter.
LowerOf == [c \in {Upper[i] : i \in 1..Len(Upper)} |->
               Lower[CHOOSE i \in 1..Len(Upper) : Upper[i] = c]]

\* str.lower() on one character
LowerChar(c) == IF c \in DOMAIN LowerOf THEN LowerOf[c] ELSE c

\* str.lower()
StrLower(s) == [i \in 1..Len(s) |-> LowerChar(s[i])]

\* str.strip()
StrStrip(s) ==
    LET keep == {i \in 1..Len(s) : s[i] # " "}
    IN  IF keep = {} THEN <<>> ELSE SubSeq(s, SetMin(keep), SetMax(keep))

\* str.replace(' ', '_')
StrReplaceSpace(s) == [i \in 1..Len(s) |-> IF s[i] = " " THEN "_" ELSE s[i]]

\* s < t for Python strings
StrLess(s, t) ==
    \E k \in 0..Len(s) :
        /\ k <= Len(t)
        /\ \A i \in 1..k : s[i] = t[i]
        /\ \/ (k = Len(s) /\ k < Len(t))
           \/ (k < Len(s) /\ k < Len(t) /\ Code(s[k+1]) < Code(t[k+1]))

\* The strings from the greatest down to the least.
StrSorted_Descending(S) ==
    [p \in 1..Cardinality(S) |->
        CHOOSE s \in S : Cardinality({t \in S : StrLess(s, t)}) = p - 1]

\* sorted(S) for a set of strings
StrSorted(S) ==
    [p \in 1..Cardinality(S) |->
        CHOOSE s \in S : Cardinality({t \in S : StrLess(t, s)}) = p - 1]

sViruses == <<"v","i","r","u","s","e","s">>
sBacteria == <<"b","a","c","t","e","r","i","a">>
sUnclassified == <<"u","n","c","l","a","s","s","i","f","i","e","d">>
sUnknown == <<"U","n","k","n","o","w","n">>
sNan == <<"n","a","n">>
sNone == <<"N","o","n","e">>
sNA == <<"N","A">>
sNSlashA == <<"N","/","A">>

-----------------------------------------------------------------------------
(* pandas: missing values, read_csv, sort_values, groupby().first().       *)

NaN == <<"NaN">>          \* a missing text cell (no string is equal to it)
NoNum == <<>>             \* a missing numeric cell
Num(n) == <<n>>
IsNaNum(c) == c = NoNum
Val(c) == c[1]

\* A cell of a column that read_csv could not convert to numbers: the text
\* as the file spells it.
Text(t) == <<"str", t>>
IsText(c) == Len(c) = 2

\* The decimal text of a number.
RECURSIVE DecText(_)
DecText(n) ==
    IF n < 10 THEN <<Digits[n + 1]>>
    ELSE Append(DecText(n \div 10), Digits[(n % 10) + 1])

\* read_csv converts a column to numbers only as a whole: when one of its
\* cells is no number the column is of type object and every cell stays the
\* text of the file (a missing cell is NaN in both cases).
ReadCsvNumber(cells, i) ==
    IF (\E j \in 1..Len(cells) : IsText(cells[j])) /\ ~IsNaNum(cells[i])
          /\ ~IsText(cells[i])
    THEN Text(DecText(Val(cells[i])))
    ELSE cells[i]

\* str(cell): a missing cell prints as 'nan'
PyStr(cell) == IF cell = NaN THEN sNan ELSE cell

\* The texts read_csv turns into NaN (its default na_values; "None" joined
\* them in pandas 2.0 and is left to safe_val here).
NaValues == {<<>>, sNan, sNA, sNSlashA, <<"N","a","N">>}

ReadCsvText(raw) == IF raw \in NaValues THEN NaN ELSE raw

Seq2Set(s) == {s[i] : i \in 1..Len(s)}

RECURSIVE ConcatAll(_)
ConcatAll(ss) == IF ss = <<>> THEN <<>> ELSE Head(ss) \o ConcatAll(Tail(ss))

\* One sort key, descending, missing values last (na_position='last').
\* Texts compare as Python strings; in a column that holds numbers and texts
\* the sorted categories of the key have the numbers before the texts.
DescBefore(x, y) ==
    /\ ~IsNaNum(x)
    /\ \/ IsNaNum(y)
       \/ IF IsText(x)
          THEN (IsText(y) => StrLess(y[2], x[2]))
          ELSE (~IsText(y) /\ Val(x) > Val(y))

\* sort_values(by=['query_id'] + by, ascending=[True, False, ...]): does row a
\* sort strictly before row b?
RowBefore(a, b, by) ==
    \/ a.query_id < b.query_id
    \/ /\ a.query_id = b.query_id
       /\ \E k \in 1..Len(by) :
            /\ \A j \in 1..(k-1) : a[by[j]] = b[by[j]]
            /\ DescBefore(a[by[k]], b[by[k]])

\* The sort is stable (a multi-key sort_values is a lexsort): row i lands
\* after the rows that sort before it and after the equal rows preceding it.
SortPosition(rows, i, by) ==
    1 + Cardinality({j \in 1..Len(rows) :
            \/ RowBefore(rows[j], rows[i], by)
            \/ (~RowBefore(rows[i], rows[j], by) /\ j < i)})

SortValues(rows, by) ==
    [p \in 1..Len(rows) |->
        rows[CHOOSE i \in 1..Len(rows) : SortPosition(rows, i, by) = p]]

\* GroupBy.first() of one column: the first entry that is not missing.
FirstValid(cells, missing) ==
    LET ok == {i \in 1..Len(cells) : cells[i] # missing}
    IN  IF ok = {} THEN missing ELSE cells[SetMin(ok)]

GroupRows(rows, q) == SelectSeq(rows, LAMBDA r : r.query_id = q)

QueryIds(rows) == {rows[i].query_id : i \in 1..Len(rows)}

Column(rows, c) == [i \in 1..Len(rows) |-> rows[i][c]]

\* The first() row of one group: every column is taken on its own.  cols0
\* are the columns whose missing value is <<>>, colsT the text columns.
FirstOfGroup(g, cols0, colsT) ==
    [c \in {"query_id"} \cup cols0 \cup colsT |->
        IF c = "query_id" THEN g[1].query_id
        ELSE IF c \in cols0 THEN FirstValid(Column(g, c), NoNum)
        ELSE FirstValid(Column(g, c), NaN)]

\* df.groupby('query_id').first().reset_index(): one row per query_id, the
\* groups in ascending key order, the rows of a group in their present order.
GroupByFirst(rows, cols0, colsT) ==
    LET qs == QueryIds(rows)
    IN  [p \in 1..Cardinality(qs) |->
            LET q == CHOOSE x \in qs : Cardinality({y \in qs : y < x}) = p - 1
            IN  FirstOfGroup(GroupRows(rows, q), cols0, colsT)]

-----------------------------------------------------------------------------
(* organize_contigs_by_taxonomy.py                                         *)

sample_id == "sample1"

OrgNumCols == {"alignment_length", "bit_score"}
OrgTextCols == {"superkingdom", "family", "genus", "species"}
OrgCols == {"query_id"} \cup OrgNumCols \cup OrgTextCols

\* The columns of a result file, in file order.
OrgColumnOrder ==
    <<"query_id", "alignment_length", "bit_score", "superkingdom", "family",
      "genus", "species">>

\* The name the script looks a column up by.
ColumnText(c) ==
    CASE c = "query_id" -> <<"q","u","e","r","y","_","i","d">>
      [] c = "alignment_length" ->
            <<"a","l","i","g","n","m","e","n","t","_","l","e","n","g","t","h">>
      [] c = "bit_score" -> <<"b","i","t","_","s","c","o","r","e">>
      [] c = "superkingdom" -> <<"s","u","p","e","r","k","i","n","g","d","o","m">>
      [] c = "family" -> <<"f","a","m","i","l","y">>
      [] c = "genus" -> <<"g","e","n","u","s">>
      [] c = "species" -> <<"s","p","e","c","i","e","s">>

\* col.strip().lower()
NormalizeColumn(name) == StrLower(StrStrip(name))

VirusDir == <<sViruses>>
BacteriaDir == <<sBacteria>>
UnclassDir == <<sUnclassified>>

\* The directories create_directory_structure makes (mkdir, exist_ok=True).
CreateDirectoryStructureDirs ==
    {VirusDir, BacteriaDir, VirusDir \o <<sUnclassified>>,
     BacteriaDir \o <<sUnclassified>>}

\* os.path.exists(br) and os.path.getsize(br) > 0, then "not tdf.empty"
Readable(f) == f.exists /\ f.rows # <<>>

\* pd.read_csv(br, sep='\t') of one result file: the cells of its rows
ReadCsv(f) ==
    [i \in 1..Len(f.rows) |->
        [query_id         |-> f.rows[i].query_id,
         alignment_length |-> ReadCsvNumber(Column(f.rows, "alignment_length"), i),
         bit_score        |-> IF f.has_bit_score
                              THEN ReadCsvNumber(Column(f.rows, "bit_score"), i)
                              ELSE NoNum,
         superkingdom     |-> ReadCsvText(f.rows[i].superkingdom),
         family           |-> ReadCsvText(f.rows[i].family),
         genus            |-> ReadCsvText(f.rows[i].genus),
         species          |-> ReadCsvText(f.rows[i].species)]]

\* The frames kept in dfs, in the order of blast_results_list.
ReadFrames(list) == SelectSeq(list, Readable)

\* The header line of a result file: the names of its columns.
FileColumns(f) ==
    LET cols == SelectSeq(OrgColumnOrder,
                          LAMBDA c : c # "bit_score" \/ f.has_bit_score)
    IN  [p \in 1..Len(cols) |-> f.header[cols[p]]]

\* The frame read_csv returns: its rows are keyed by the names of the header
\* line, as the file spells them.
ReadFrame(f) ==
    [columns |-> FileColumns(f),
     rows |-> [i \in 1..Len(f.rows) |->
                 [n \in Seq2Set(FileColumns(f)) |->
                     ReadCsv(f)[i][CHOOSE c \in OrgCols : f.header[c] = n]]]]

\* The columns of the concatenation: every name of every frame, once, in the
\* order of first appearance.
UnionColumns(frames) ==
    LET all == ConcatAll([i \in 1..Len(frames) |-> frames[i].columns])
        first == {p \in 1..Len(all) : \A r \in 1..(p - 1) : all[r] # all[p]}
    IN  [k \in 1..Cardinality(first) |->
            all[CHOOSE p \in first : Cardinality({r \in first : r < p}) = k - 1]]

\* The missing value concat fills a column with (a text column's NaN or a
\* numeric column's, which this model writes differently).
MissingIn(name) ==
    IF \E c \in OrgTextCols : ColumnText(c) = NormalizeColumn(name)
    THEN NaN ELSE NoNum

\* pd.concat(dfs, ignore_index=True), line 94: the rows in list order; a row
\* is missing in the columns its own frame does not have.  Names are compared
\* as spelled: the names are normalized after the concatenation only.
ConcatFrames(list) ==
    LET kept == ReadFrames(list)
        frames == [i \in 1..Len(kept) |-> ReadFrame(kept[i])]
        cols == UnionColumns(frames)
    IN  [columns |-> cols,
         rows |-> ConcatAll([i \in 1..Len(frames) |->
                    [j \in 1..Len(frames[i].rows) |->
                        [n \in Seq2Set(cols) |->
                            IF n \in DOMAIN frames[i].rows[j]
                            THEN frames[i].rows[j][n]
                            ELSE MissingIn(n)]]])]

\* Line 97: the columns are renamed in place; two columns may now carry one
\* name, so the rows are kept by position.  has_bit_score is the test of
\* line 100 on the renamed columns.
NormalizeColumns(frame) ==
    [has_bit_score |->
        \E p \in 1..Len(frame.columns) :
            NormalizeColumn(frame.columns[p]) = ColumnText("bit_score"),
     columns |-> [p \in 1..Len(frame.columns) |-> NormalizeColumn(frame.columns[p])],
     rows |-> [i \in 1..Len(frame.rows) |->
                 [p \in 1..Len(frame.columns) |-> frame.rows[i][frame.columns[p]]]]]

\* The positions of the columns that carry the name of c.
Labelled(frame, c) == {p \in 1..Len(frame.columns) : frame.columns[p] = ColumnText(c)}

\* sort_values(by=[...]) and groupby('query_id') raise ValueError when the
\* label they are given names two columns.
SelectFails(frame) ==
    \/ Cardinality(Labelled(frame, "query_id")) > 1
    \/ (frame.has_bit_score /\ Cardinality(Labelled(frame, "bit_score")) > 1)

\* row['query_id'], row.get(rank, ''): the rows by column name.
FrameRecords(frame) ==
    LET at == [c \in OrgCols |-> Labelled(frame, c)]
    IN  [i \in 1..Len(frame.rows) |->
            [c \in OrgCols |->
                IF at[c] = {}
                THEN (IF c \in OrgTextCols THEN NaN ELSE NoNum)
                ELSE frame.rows[i][SetMin(at[c])]]]

\* The merged frame of lines 94-97 with its rows by column name.
MergedFrame(list) ==
    LET frame == NormalizeColumns(ConcatFrames(list))
    IN  [has_bit_score |-> frame.has_bit_score, rows |-> FrameRecords(frame)]

\* The sort without its bit_score key: rows are only grouped by query_id.
OrganizeSortKeys_QueryOnly == <<>>

\* The sort keys of organize_contigs after query_id.
OrganizeSortKeys == <<"bit_score">>

\* Lines 99-103: sort when there is a bit_score column, then first per group.
SelectBestHits(frame) ==
    LET sorted == IF frame.has_bit_score
                  THEN SortValues(frame.rows, OrganizeSortKeys)
                  ELSE frame.rows
    IN  GroupByFirst(sorted, OrgNumCols, OrgTextCols)

\* safe_val
SafeVal(val, fallback) ==
    IF val \in {<<>>, sNan, sNone, sNA, sNSlashA} THEN fallback ELSE val

\* str(row.get(rank, '')).strip().replace(' ', '_')
RankText(cell) == StrReplaceSpace(StrStrip(PyStr(cell)))

\* str(row.get('superkingdom', '')).strip().lower()
SuperkingdomText(cell) == StrLower(StrStrip(PyStr(cell)))

\* The family of a classification record.
FamilyOf(row) == SafeVal(RankText(row.family), sUnclassified)

\* The record contig_info gets for a row whose superkingdom matched.  The
\* ranks phylum, class, order and the subject_title are computed by the very
\* expression that computes genus and species, and are not repeated here.
ContigInfoOf(row) ==
    [type         |-> SuperkingdomText(row.superkingdom),
     superkingdom |-> SafeVal(SuperkingdomText(row.superkingdom), sUnknown),
     family       |-> FamilyOf(row),
     genus        |-> SafeVal(RankText(row.genus), sUnknown),
     species      |-> SafeVal(RankText(row.species), sUnknown)]

Classified(row) == SuperkingdomText(row.superkingdom) \in {sViruses, sBacteria}

\* The dict without the superkingdom test of line 122: every row is kept.
BuildContigInfo_NoFilter(rows) ==
    [q \in QueryIds(rows) |->
        ContigInfoOf(rows[CHOOSE i \in 1..Len(rows) : rows[i].query_id = q])]

\* Lines 106-133: the dict built from the best-hit rows.
BuildContigInfo(rows) ==
    LET keep == {i \in 1..Len(rows) : Classified(rows[i])}
    IN  [q \in {rows[i].query_id : i \in keep} |->
            ContigInfoOf(rows[CHOOSE i \in keep : rows[i].query_id = q])]

\* create_enhanced_header: the fields of the header line, in order.
CreateEnhancedHeader(record, info) ==
    [id     |-> record.id,
     fields |-> <<sample_id, info.superkingdom, info.family, info.genus,
                  info.species>>,
     desc   |-> StrStrip(record.description)]

\* The header SeqIO writes for the record itself.
OriginalHeader(record) ==
    [id |-> record.id, fields |-> <<>>, desc |-> record.description]

\* The file opened with 'a': the record is added to what the path held.
WriteFasta_Append(fs, dir, record, header) ==
    LET path == [dir |-> dir, name |-> record.id]
        old == {f \in fs : f.path = path}
        held == IF old = {} THEN <<>> ELSE (CHOOSE f \in old : TRUE).content
    IN  {f \in fs : f.path # path}
        \cup {[path |-> path,
               content |-> Append(held, [header |-> header, seq |-> record.seq])]}

\* write_fasta: open(output_file, 'w') truncates, so the file holds the one
\* record written last.
WriteFasta(fs, dir, record, header) ==
    LET path == [dir |-> dir, name |-> record.id]
    IN  {f \in fs : f.path # path}
        \cup {[path |-> path,
               content |-> <<[header |-> header, seq |-> record.seq]>>]}

\* The loop left after its first record.
WriteAllOriginal_FirstOnly(fs, dir, records) ==
    IF records = <<>> THEN fs
    ELSE WriteFasta(fs, dir, Head(records), OriginalHeader(Head(records)))

RECURSIVE WriteAllOriginal(_, _, _)
WriteAllOriginal(fs, dir, records) ==
    IF records = <<>> THEN fs
    ELSE WriteAllOriginal(WriteFasta(fs, dir, Head(records), OriginalHeader(Head(records))),
                          dir, Tail(records))

\* The directory chosen without looking at the organism type.
OutputDirPath_IgnoresType(info) ==
    IF info.family = sUnclassified
    THEN VirusDir \o <<sUnclassified>>
    ELSE VirusDir \o <<info.family>>

\* Lines 163-166: where a classified record goes.
OutputDirPath(info) ==
    IF info.family = sUnclassified
    THEN (IF info.type = sViruses THEN VirusDir ELSE BacteriaDir) \o <<sUnclassified>>
    ELSE (IF info.type = sViruses THEN VirusDir ELSE BacteriaDir) \o <<info.family>>

\* Lines 152-160: count the record under its family.
TrackTaxonomy(ts, info) ==
    LET cur == ts[info.type]
        old == IF info.family \in DOMAIN cur THEN cur[info.family]
               ELSE [count |-> 0, species |-> {}, genera |-> {}]
        new == [count   |-> old.count + 1,
                species |-> old.species \cup {info.species},
                genera  |-> old.genera \cup {info.genus}]
    IN  [ts EXCEPT ![info.type] =
            [f \in DOMAIN cur \cup {info.family} |->
                IF f = info.family THEN new ELSE cur[f]]]

EmptySummary == [t \in {sViruses, sBacteria} |-> <<>>]

\* Lines 191-197 and 203-209: the family blocks of one section.
SummarySection(byFamily) ==
    LET fams == StrSorted(DOMAIN byFamily)
    IN  [p \in 1..Len(fams) |->
            [family  |-> fams[p],
             count   |-> byFamily[fams[p]].count,
             genera  |-> StrSorted(byFamily[fams[p]].genera),
             species |-> StrSorted(byFamily[fams[p]].species)]]

\* Lines 185-218: the text of classification_summary.txt.
SummaryText(ts, unclassified) ==
    [sample       |-> sample_id,
     no_hits      |-> FALSE,
     viruses      |-> SummarySection(ts[sViruses]),
     bacteria     |-> SummarySection(ts[sBacteria]),
     unclassified |-> <<Len(unclassified)>>]

\* Lines 88-91: the summary of the run that found no BLAST result.
NoHitsSummaryText ==
    [sample |-> sample_id, no_hits |-> TRUE, viruses |-> <<>>,
     bacteria |-> <<>>, unclassified |-> <<>>]

-----------------------------------------------------------------------------
(* process_blast_results.py                                                *)

Ranks == {"superkingdom", "kingdom", "phylum", "class", "order", "family",
          "genus", "species"}

PyNone == <<"PyNone">>     \* Python's None as a rank value

LongSeqLimit == 30000

\* The taxonomy database behind ete3's NCBITaxa, as a small fixed tree:
\* taxid -> parent, rank, scientific name.
NcbiNodes ==
    [n \in 1..7 |->
        CASE n = 1 -> [parent |-> 1, rank |-> "no rank",      name |-> <<"r","o","o","t">>]
          [] n = 2 -> [parent |-> 1, rank |-> "superkingdom", name |-> <<"B","a","c","t","e","r","i","a">>]
          [] n = 3 -> [parent |-> 2, rank |-> "family",       name |-> <<"E","n","t","e","r","o">>]
          [] n = 4 -> [parent |-> 3, rank |-> "species",      name |-> <<"E"," ","c","o","l","i">>]
          [] n = 5 -> [parent |-> 3, rank |-> "genus",        name |-> <<"E","s","c","h">>]
          [] n = 6 -> [parent |-> 1, rank |-> "superkingdom", name |-> <<"V","i","r","u","s","e","s">>]
          [] n = 7 -> [parent |-> 6, rank |-> "species",      name |-> <<"L","a","m","b","d","a">>]]

\* ncbi.get_lineage(tax_id) raises ValueError for an id the database lacks.
NcbiKnows(n) == n \in DOMAIN NcbiNodes

\* ncbi.get_lineage(tax_id): the ancestors from the root down to tax_id.
RECURSIVE GetLineage(_)
GetLineage(n) ==
    IF NcbiNodes[n].parent = n THEN <<n>>
    ELSE Append(GetLineage(NcbiNodes[n].parent), n)

EmptyTaxonomy == [rank \in Ranks |-> PyNone]

\* The lookup whose failure is not turned into an empty lineage: an
\* identifier the database lacks is resolved as the root's first child.
GetSingleTaxonomyInfo_UnknownAsKnown(n) ==
    LET lineage == GetLineage(IF NcbiKnows(n) THEN n ELSE 2)
    IN  [rank \in Ranks |->
            LET at == {i \in 1..Len(lineage) : NcbiNodes[lineage[i]].rank = rank}
            IN  IF at = {} THEN PyNone
                ELSE NcbiNodes[lineage[SetMax(at)]].name]

\* get_single_taxonomy_info: the name of each rank on the lineage (a later
\* taxid of the same rank replaces an earlier one); all None when not found.
GetSingleTaxonomyInfo(n) ==
    IF ~NcbiKnows(n) THEN EmptyTaxonomy
    ELSE LET lineage == GetLineage(n)
         IN  [rank \in Ranks |->
                LET at == {i \in 1..Len(lineage) : NcbiNodes[lineage[i]].rank = rank}
                IN  IF at = {} THEN PyNone
                    ELSE NcbiNodes[lineage[SetMax(at)]].name]

\* str(tax_id_str).split(';'): the identifiers of the field; a missing field
\* prints as 'nan', one identifier that is no integer.
BadToken == [int |-> FALSE, n |-> 0]

SplitTaxIds(cell) == IF cell = NoNum THEN <<BadToken>> ELSE cell

\* "if tax_info[rank]": None and '' are false
Truthy(v) == v # PyNone /\ v # <<>>

\* The merge without its "is None" test: a later identifier overwrites.
MergeTaxonomy_LastWins(merged, tax_info) ==
    [rank \in Ranks |->
        IF Truthy(tax_info[rank]) THEN tax_info[rank] ELSE merged[rank]]

\* Lines 57-59: merge one identifier's lineage into the merged lineage.
MergeTaxonomy(merged, tax_info) ==
    [rank \in Ranks |->
        IF merged[rank] = PyNone /\ Truthy(tax_info[rank])
        THEN tax_info[rank] ELSE merged[rank]]

ProcCols == {"alignment_length", "bit_score", "tax_id", "sequence_length"}

\* The two keys in the other order: bit_score before alignment_length.
ProcessSortKeys_ScoreFirst == <<"bit_score", "alignment_length">>

\* The sort keys of process_blast_results after query_id.
ProcessSortKeys == <<"alignment_length", "bit_score">>

\* seq2dict, then lines 78-79: the length of the query's sequence, 0 when it
\* is over the limit; a query_id that is no record has no sequence (NaN -> 0).
SequenceLength(fasta, q) ==
    LET at == {i \in 1..Len(fasta) : fasta[i].id = q}
    IN  IF at = {} THEN 0
        ELSE LET n == fasta[SetMax(at)].seq
             IN  IF n > LongSeqLimit THEN 0 ELSE n

\* read_csv gives the tax_id column a float type when a cell is missing and
\* every other cell is one integer.
FloatTaxIds(rows) ==
    /\ \E i \in 1..Len(rows) : rows[i].tax_id = NoNum
    /\ \A i \in 1..Len(rows) :
          \/ rows[i].tax_id = NoNum
          \/ (Len(rows[i].tax_id) = 1 /\ rows[i].tax_id[1].int)

\* The tax_id cell as get_taxonomy_info gets it: in a float column the
\* integer n prints as 'n.0', which int() does not parse.
ReadTaxId(rows, i) ==
    IF FloatTaxIds(rows) /\ rows[i].tax_id # NoNum
    THEN <<BadToken>>
    ELSE rows[i].tax_id

\* Lines 68-79: the frame with its sequence_length column.
ReadBlastFrame(rows, fasta) ==
    [i \in 1..Len(rows) |->
        [query_id         |-> rows[i].query_id,
         alignment_length |-> ReadCsvNumber(Column(rows, "alignment_length"), i),
         bit_score        |-> ReadCsvNumber(Column(rows, "bit_score"), i),
         tax_id           |-> ReadTaxId(rows, i),
         sequence_length  |-> Num(SequenceLength(fasta, rows[i].query_id))]]

\* Lines 82-83.
ProcessBestHits(rows) ==
    GroupByFirst(SortValues(rows, ProcessSortKeys), ProcCols, {})

\* Line 108: sorted by alignment_length, descending, missing last.
SortedByLength(rows) ==
    \A i \in 1..Len(rows), j \in 1..Len(rows) :
        i < j => ~DescBefore(rows[j].alignment_length, rows[i].alignment_length)

RowOrders(n) == {f \in [1..n -> 1..n] : \A i, j \in 1..n : f[i] = f[j] => i = j}

-----------------------------------------------------------------------------
(* The inputs the scripts are run on.                                      *)

rSiphoviridae == <<"S","i","p","h","o","v","i","r","i","d","a","e">>
rIncertaeSedis == <<"I","n","c","e","r","t","a","e"," ","s","e","d","i","s">>
rLambdavirus == <<"L","a","m","b","d","a","v","i","r","u","s">>
rPhageLambda == <<"p","h","a","g","e"," ","l","a","m","b","d","a">>
rChivirus == <<"C","h","i","v","i","r","u","s">>
rPhageChi == <<"p","h","a","g","e"," ","c","h","i">>

\* superkingdom cells as the result files may hold them
SuperkingdomTexts ==
    {<<"V","i","r","u","s","e","s">>, <<"b","a","c","t","e","r","i","a"," ">>,
     <<"E","u","k","a","r","y","o","t","a">>, <<>>}

\* family cells: mixed case, lower case, an inner space, blank, empty, and
\* the texts that stand for a missing value
FamilyTexts ==
    {rSiphoviridae, StrLower(rSiphoviridae), rIncertaeSedis, <<" ">>, <<>>,
     sNone, sNA, sNSlashA}

\* One row of a result file of organize_contigs.
OrgRow(q, len, score, sk, fam) ==
    [query_id |-> q, alignment_length |-> len, bit_score |-> score,
     superkingdom |-> sk, family |-> fam,
     genus   |-> IF fam # rSiphoviridae THEN <<>>
                 ELSE IF q = 1 THEN rLambdavirus ELSE rChivirus,
     species |-> IF fam # rSiphoviridae THEN <<>>
                 ELSE IF q = 1 THEN rPhageLambda ELSE rPhageChi]

\* Rows that differ in their annotation.
LineageRows ==
    {OrgRow(q, Num(1), Num(1), sk, fam) :
        q \in 1..MaxQuery, sk \in SuperkingdomTexts, fam \in FamilyTexts}

\* Rows that differ in their numbers (and in having a family or not).
NumericCells(max) == {NoNum} \cup {Num(n) : n \in 1..max}

ScoredRows ==
    {OrgRow(q, len, score, <<"V","i","r","u","s","e","s">>, fam) :
        q \in 1..MaxQuery, len \in NumericCells(MaxLen),
        score \in NumericCells(MaxScore), fam \in {rSiphoviridae, <<>>}}

\* Numeric cells as a file may hold them: missing, a number, or text that
\* is no number.
MalformedCells(max) == NumericCells(max) \cup {Text(<<"a","b","c">>)}

\* Rows of organize_contigs that differ in their bit_score, and in their
\* family so that the row a value comes from is known.
MalformedRows ==
    {OrgRow(q, Num(1), score, <<"V","i","r","u","s","e","s">>, fam) :
        q \in 1..MaxQuery, score \in MalformedCells(MaxScore),
        fam \in {rSiphoviridae, rIncertaeSedis}}

\* The header line every column of which is spelled as the script spells it.
PlainHeader == [c \in OrgCols |-> ColumnText(c)]

\* Header lines of another tool: a name in capitals with a trailing blank.
CapsQueryHeader ==
    [PlainHeader EXCEPT !["query_id"] = <<"Q","u","e","r","y","_","I","D"," ">>]

CapsScoreHeader ==
    [PlainHeader EXCEPT !["bit_score"] = <<"B","i","t","_","S","c","o","r","e">>]

Headers == {PlainHeader, CapsQueryHeader, CapsScoreHeader}

MissingFile ==
    [exists |-> FALSE, has_bit_score |-> FALSE, header |-> PlainHeader,
     rows |-> <<>>]

\* The result files over a set of rows: missing, empty, or holding one row.
ResultFiles(Rows, flag) ==
    {MissingFile,
     [exists |-> TRUE, has_bit_score |-> flag, header |-> PlainHeader,
      rows |-> <<>>]}
    \cup {[exists |-> TRUE, has_bit_score |-> flag, header |-> PlainHeader,
            rows |-> <<r>>] : r \in Rows}

\* Two result files; flags says whether the files have a bit_score column.
ResultLists(Rows, flags) ==
    UNION {{<<f, g>> : f \in ResultFiles(Rows, b), g \in ResultFiles(Rows, b)} :
            b \in flags}

\* A few result lists that take organize_contigs through every branch.
BaseResultLists ==
    {<<MissingFile>>,
     <<[exists |-> TRUE, has_bit_score |-> TRUE, header |-> PlainHeader,
        rows |-> <<OrgRow(1, Num(1), Num(1), <<"V","i","r","u","s","e","s">>, rSiphoviridae),
                   OrgRow(2, Num(1), Num(1), sBacteria, <<>>)>>]>>}

\* Rows of one family that differ in their query_id and bit_score.
HeaderRows ==
    {OrgRow(q, Num(1), Num(score), <<"V","i","r","u","s","e","s">>, rSiphoviridae) :
        q \in 1..MaxQuery, score \in 1..MaxScore}

\* Two result files of one row each, whose header lines may differ in the
\* spelling of a column name.
HeaderResultLists ==
    {<<[exists |-> TRUE, has_bit_score |-> b, header |-> h1, rows |-> <<r1>>],
       [exists |-> TRUE, has_bit_score |-> b, header |-> h2, rows |-> <<r2>>]>> :
        b \in BOOLEAN, h1 \in Headers, h2 \in Headers,
        r1 \in HeaderRows, r2 \in HeaderRows}
    \cup BaseResultLists

\* The sequence collection: records 1..MaxQuery+1, so that the last one is
\* in no result file; record 1 carries a description, record 2 is long.
FastaRecords ==
    [i \in 1..(MaxQuery + 1) |->
        [id |-> i,
         description |-> IF i = 1 THEN <<"l","o","w"," ","c","o","v">> ELSE <<>>,
         seq |-> IF i = 2 THEN LongSeqLimit + 1 ELSE 500]]

\* One identifier of a tax_id field: an integer, or text that is none.
TaxTokens == {[int |-> TRUE, n |-> n] : n \in {4, 5, 7, 9}} \cup {BadToken}

RECURSIVE SeqsUpTo(_, _)
SeqsUpTo(S, n) ==
    IF n = 0 THEN {<<>>}
    ELSE LET shorter == SeqsUpTo(S, n - 1)
         IN  shorter \cup {Append(s, x) : s \in shorter, x \in S}

\* tax_id cells: missing (<<>>), or one to MaxTaxIds identifiers
TaxIdCells == SeqsUpTo(TaxTokens, MaxTaxIds)

ProcRow(q, len, score, tax) ==
    [query_id |-> q, alignment_length |-> len, bit_score |-> score, tax_id |-> tax]

\* BLAST files whose rows differ in their tax_id field.
TaxBlastFiles ==
    {<<ProcRow(1, Num(1), Num(1), t)>> : t \in TaxIdCells}
    \cup {<<ProcRow(1, Num(1), Num(1), t), ProcRow(2, Num(2), Num(1), u)>> :
            t \in TaxIdCells,
            u \in {<<>>, <<[int |-> TRUE, n |-> 5]>>,
                    <<BadToken, [int |-> TRUE, n |-> 5]>>}}

\* BLAST files whose rows differ in their numbers.
ScoredProcRows ==
    {ProcRow(q, len, score, t) :
        q \in 1..MaxQuery, len \in NumericCells(MaxLen),
        score \in NumericCells(MaxScore),
        t \in {<<>>, <<[int |-> TRUE, n |-> 4]>>}}

ScoredBlastFiles ==
    {<<>>} \cup {<<r>> : r \in ScoredProcRows}
    \cup {<<r, s>> : r \in ScoredProcRows, s \in ScoredProcRows}

\* BLAST files whose numeric cells may be missing or no number.
MalformedProcRows ==
    {ProcRow(q, len, score, <<[int |-> TRUE, n |-> 4]>>) :
        q \in 1..MaxQuery, len \in MalformedCells(MaxLen),
        score \in MalformedCells(MaxScore)}

MalformedBlastFiles ==
    {<<>>} \cup {<<r>> : r \in MalformedProcRows}
    \cup {<<r, s>> : r \in MalformedProcRows, s \in MalformedProcRows}

\* A few BLAST files that take process_blast_results through every branch.
BaseBlastFiles ==
    {<<>>,
     <<ProcRow(1, Num(2), Num(1), <<[int |-> TRUE, n |-> 4], BadToken>>),
       ProcRow(1, Num(1), Num(2), <<[int |-> TRUE, n |-> 5]>>),
       ProcRow(2, Num(1), Num(1), <<[int |-> TRUE, n |-> 9], [int |-> TRUE, n |-> 7]>>)>>}

-----------------------------------------------------------------------------
(* The state before a script starts.                                       *)

InitWith(lists, blasts) ==
    /\ prog \in {"organize", "process"}
    /\ pc = "start"
    /\ run = "first"
    /\ blast_results_list \in (IF prog = "organize" THEN lists ELSE {<<>>})
    /\ blast_file \in (IF prog = "process" THEN blasts ELSE {<<>>})
    /\ fasta_file = FastaRecords
    /\ dirs = {}
    /\ files = {}
    /\ summary_file = <<>>
    /\ df = [has_bit_score |-> FALSE, columns |-> <<>>, rows |-> <<>>]
    /\ contig_info = <<>>
    /\ taxonomy_summary = EmptySummary
    /\ unclassified_contigs = <<>>
    /\ rec_idx = 1
    /\ first_run_files = <<>>
    /\ df_best_hits = <<>>
    /\ row_idx = 1
    /\ tax_idx = 1
    /\ merged_taxonomy = EmptyTaxonomy
    /\ taxonomy_info = <<>>
    /\ output_file = <<>>

Init == InitWith(ResultLists(LineageRows, {TRUE}), BaseBlastFiles)

InitAgg == InitWith(ResultLists(ScoredRows, BOOLEAN), ScoredBlastFiles)

InitTax == InitWith(BaseResultLists, TaxBlastFiles)

InitCols == InitWith(HeaderResultLists, BaseBlastFiles)

InitNum == InitWith(ResultLists(MalformedRows, {TRUE}), MalformedBlastFiles)

-----------------------------------------------------------------------------
(* organize_contigs, step by step.                                         *)

\* Line 67.
CreateDirectoryStructure ==
    /\ prog = "organize" /\ pc = "start"
    /\ dirs' = dirs \cup CreateDirectoryStructureDirs
    /\ pc' = "read"
    /\ UNCHANGED <<run, input_vars, files, summary_file, org_vars,
                   first_run_files, proc_vars>>

\* Lines 69-97: read the result files; merge them when one was readable.
ReadBlastResults ==
    /\ prog = "organize" /\ pc = "read"
    /\ IF ReadFrames(blast_results_list) = <<>>
       THEN /\ pc' = "no_results"
            /\ UNCHANGED df
       ELSE /\ pc' = "select"
            /\ df' = NormalizeColumns(ConcatFrames(blast_results_list))
    /\ UNCHANGED <<run, input_vars, dirs, files, summary_file, contig_info,
                   taxonomy_summary, unclassified_contigs, rec_idx,
                   first_run_files, proc_vars>>

\* Lines 80-92: no result to process; every contig goes to unclassified/.
NoBlastResults ==
    /\ prog = "organize" /\ pc = "no_results"
    /\ dirs' = dirs \cup {UnclassDir}
    /\ files' = WriteAllOriginal(files, UnclassDir, fasta_file)
    /\ summary_file' = <<NoHitsSummaryText>>
    /\ pc' = "done"
    /\ UNCHANGED <<run, input_vars, org_vars, first_run_files, proc_vars>>

\* Lines 99-103; an exception of the sort or of the grouping ends the run.
SelectBest ==
    /\ prog = "organize" /\ pc = "select"
    /\ IF SelectFails(df)
       THEN /\ pc' = "failed"
            /\ UNCHANGED df
       ELSE /\ df' = [df EXCEPT !.rows =
                        SelectBestHits([has_bit_score |-> df.has_bit_score,
                                        rows |-> FrameRecords(df)])]
            /\ pc' = "classify"
    /\ UNCHANGED <<run, input_vars, dirs, files, summary_file, contig_info,
                   taxonomy_summary, unclassified_contigs, rec_idx,
                   first_run_files, proc_vars>>

\* Lines 105-137.
Classify ==
    /\ prog = "organize" /\ pc = "classify"
    /\ contig_info' = BuildContigInfo(df.rows)
    /\ unclassified_contigs' = <<>>
    /\ taxonomy_summary' = EmptySummary
    /\ rec_idx' = 1
    /\ pc' = "organize"
    /\ UNCHANGED <<run, input_vars, dirs, files, summary_file, df,
                   first_run_files, proc_vars>>

\* The loop body without its else: a record that was written under its
\* classification is put on the unclassified list as well.
OrganizeRecord_AlsoUnclassified ==
    /\ prog = "organize" /\ pc = "organize"
    /\ rec_idx <= Len(fasta_file)
    /\ LET record == fasta_file[rec_idx]
       IN  \/ /\ record.id \in DOMAIN contig_info
              /\ contig_info[record.id].family # sUnclassified
              /\ dirs' = dirs \cup {OutputDirPath(contig_info[record.id])}
              /\ taxonomy_summary' =
                    TrackTaxonomy(taxonomy_summary, contig_info[record.id])
              /\ files' = WriteFasta(files, OutputDirPath(contig_info[record.id]),
                              record,
                              CreateEnhancedHeader(record, contig_info[record.id]))
              /\ unclassified_contigs' = Append(unclassified_contigs, record)
           \/ /\ record.id \in DOMAIN contig_info
              /\ contig_info[record.id].family = sUnclassified
              /\ files' = WriteFasta(files, OutputDirPath(contig_info[record.id]),
                              record,
                              CreateEnhancedHeader(record, contig_info[record.id]))
              /\ unclassified_contigs' = Append(unclassified_contigs, record)
              /\ UNCHANGED <<dirs, taxonomy_summary>>
           \/ /\ record.id \notin DOMAIN contig_info
              /\ unclassified_contigs' = Append(unclassified_contigs, record)
              /\ UNCHANGED <<dirs, files, taxonomy_summary>>
    /\ rec_idx' = rec_idx + 1
    /\ UNCHANGED <<pc, run, input_vars, summary_file, df, contig_info,
                   first_run_files, proc_vars>>

\* Lines 139-175: one record of the FASTA file.
OrganizeRecord ==
    /\ prog = "organize" /\ pc = "organize"
    /\ rec_idx <= Len(fasta_file)
    /\ LET record == fasta_file[rec_idx]
       IN  \/ /\ record.id \in DOMAIN contig_info
              /\ contig_info[record.id].family # sUnclassified
              /\ dirs' = dirs \cup {OutputDirPath(contig_info[record.id])}
              /\ taxonomy_summary' =
                    TrackTaxonomy(taxonomy_summary, contig_info[record.id])
              /\ files' = WriteFasta(files, OutputDirPath(contig_info[record.id]),
                              record,
                              CreateEnhancedHeader(record, contig_info[record.id]))
              /\ UNCHANGED unclassified_contigs
           \/ /\ record.id \in DOMAIN contig_info
              /\ contig_info[record.id].family = sUnclassified
              /\ files' = WriteFasta(files, OutputDirPath(contig_info[record.id]),
                              record,
                              CreateEnhancedHeader(record, contig_info[record.id]))
              /\ UNCHANGED <<dirs, taxonomy_summary, unclassified_contigs>>
           \/ /\ record.id \notin DOMAIN contig_info
              /\ unclassified_contigs' = Append(unclassified_contigs, record)
              /\ UNCHANGED <<dirs, files, taxonomy_summary>>
    /\ rec_idx' = rec_idx + 1
    /\ UNCHANGED <<pc, run, input_vars, summary_file, df, contig_info,
                   first_run_files, proc_vars>>

\* Lines 177-182.
WriteUnclassified ==
    /\ prog = "organize" /\ pc = "organize"
    /\ rec_idx > Len(fasta_file)
    /\ IF unclassified_contigs # <<>>
       THEN /\ dirs' = dirs \cup {UnclassDir}
            /\ files' = WriteAllOriginal(files, UnclassDir, unclassified_contigs)
       ELSE UNCHANGED <<dirs, files>>
    /\ pc' = "summary"
    /\ UNCHANGED <<run, input_vars, summary_file, org_vars, first_run_files,
                   proc_vars>>

\* Lines 184-218.
WriteSummary ==
    /\ prog = "organize" /\ pc = "summary"
    /\ summary_file' = <<SummaryText(taxonomy_summary, unclassified_contigs)>>
    /\ pc' = "done"
    /\ UNCHANGED <<run, input_vars, dirs, files, org_vars, first_run_files,
                   proc_vars>>

\* The script is started again with the same arguments on the tree it left:
\* a new process, whose memory is fresh.
Rerun ==
    /\ prog = "organize" /\ pc = "done" /\ run = "first"
    /\ run' = "second"
    /\ first_run_files' = <<[files |-> files, summary |-> summary_file]>>
    /\ pc' = "start"
    /\ df' = [has_bit_score |-> FALSE, columns |-> <<>>, rows |-> <<>>]
    /\ contig_info' = <<>>
    /\ taxonomy_summary' = EmptySummary
    /\ unclassified_contigs' = <<>>
    /\ rec_idx' = 1
    /\ UNCHANGED <<input_vars, dirs, files, summary_file, proc_vars>>

-----------------------------------------------------------------------------
(* process_blast_results, step by step.                                    *)

\* Lines 66-79: an empty BLAST file gives an empty output file.
ReadBlastFile ==
    /\ prog = "process" /\ pc = "start"
    /\ IF blast_file = <<>>
       THEN /\ output_file' = <<"empty">>
            /\ pc' = "done"
            /\ UNCHANGED df_best_hits
       ELSE /\ df_best_hits' = ReadBlastFrame(blast_file, fasta_file)
            /\ pc' = "select"
            /\ UNCHANGED output_file
    /\ UNCHANGED <<run, input_vars, dirs, files, summary_file, org_vars,
                   first_run_files, row_idx, tax_idx, merged_taxonomy,
                   taxonomy_info>>

\* Lines 81-83, and the start of the apply of line 86.
SelectBestProcess ==
    /\ prog = "process" /\ pc = "select"
    /\ df_best_hits' = ProcessBestHits(df_best_hits)
    /\ row_idx' = 1
    /\ tax_idx' = 1
    /\ merged_taxonomy' = EmptyTaxonomy
    /\ taxonomy_info' = <<>>
    /\ pc' = "taxonomy"
    /\ UNCHANGED <<run, input_vars, dirs, files, summary_file, org_vars,
                   first_run_files, output_file>>

\* get_taxonomy_info, lines 54-61: one identifier of the row's tax_id.
TaxonomyStep ==
    /\ prog = "process" /\ pc = "taxonomy"
    /\ row_idx <= Len(df_best_hits)
    /\ LET tax_ids == SplitTaxIds(df_best_hits[row_idx].tax_id)
       IN  /\ tax_idx <= Len(tax_ids)
           /\ \/ /\ ~tax_ids[tax_idx].int
                 /\ UNCHANGED merged_taxonomy
              \/ /\ tax_ids[tax_idx].int
                 /\ merged_taxonomy' =
                       MergeTaxonomy(merged_taxonomy,
                                     GetSingleTaxonomyInfo(tax_ids[tax_idx].n))
    /\ tax_idx' = tax_idx + 1
    /\ UNCHANGED <<pc, run, input_vars, dirs, files, summary_file, org_vars,
                   first_run_files, df_best_hits, row_idx, taxonomy_info,
                   output_file>>

\* get_taxonomy_info, line 62: the merged lineage of the row is returned.
TaxonomyReturn ==
    /\ prog = "process" /\ pc = "taxonomy"
    /\ row_idx <= Len(df_best_hits)
    /\ tax_idx > Len(SplitTaxIds(df_best_hits[row_idx].tax_id))
    /\ taxonomy_info' = Append(taxonomy_info, merged_taxonomy)
    /\ row_idx' = row_idx + 1
    /\ tax_idx' = 1
    /\ merged_taxonomy' = EmptyTaxonomy
    /\ UNCHANGED <<pc, run, input_vars, dirs, files, summary_file, org_vars,
                   first_run_files, df_best_hits, output_file>>

\* Lines 87-112: join the lineages, sort by alignment_length and save.  The
\* one-key sort is not stable: rows of equal length may come in any order.
SaveBestHits ==
    /\ prog = "process" /\ pc = "taxonomy"
    /\ row_idx > Len(df_best_hits)
    /\ \E perm \in RowOrders(Len(df_best_hits)) :
          LET joined == [i \in 1..Len(df_best_hits) |->
                            [hit |-> df_best_hits[perm[i]],
                             lineage |-> taxonomy_info[perm[i]]]]
          IN  /\ SortedByLength([i \in 1..Len(joined) |-> joined[i].hit])
              /\ output_file' = joined
    /\ pc' = "done"
    /\ UNCHANGED <<run, input_vars, dirs, files, summary_file, org_vars,
                   first_run_files, df_best_hits, row_idx, tax_idx,
                   merged_taxonomy, taxonomy_info>>

Next ==
    \/ CreateDirectoryStructure
    \/ ReadBlastResults
    \/ NoBlastResults
    \/ SelectBest
    \/ Classify
    \/ OrganizeRecord
    \/ WriteUnclassified
    \/ WriteSummary
    \/ Rerun
    \/ ReadBlastFile
    \/ SelectBestProcess
    \/ TaxonomyStep
    \/ TaxonomyReturn
    \/ SaveBestHits

Spec == Init /\ [][Next]_vars

SpecAgg == InitAgg /\ [][Next]_vars

SpecTax == InitTax /\ [][Next]_vars

SpecCols == InitCols /\ [][Next]_vars

SpecNum == InitNum /\ [][Next]_vars

-----------------------------------------------------------------------------
(* Properties of the best-hit selection.                                   *)

\* organize_contigs has selected its best hits.
AfterSelect == prog = "organize" /\ pc \in {"classify", "organize", "summary", "done"}

\* process_blast_results has selected its best hits.
ProcAfterSelect == prog = "process" /\ pc \in {"taxonomy", "done"}

\* The rows of the readable result files, each with its own cells, in list
\* order.
OwnRows ==
    ConcatAll([i \in 1..Len(ReadFrames(blast_results_list)) |->
                 ReadCsv(ReadFrames(blast_results_list)[i])])

\* The rows organize_contigs selects from (the header lines of the files of
\* these properties are all spelled alike).
MergedRows == OwnRows

\* x ranks at least as high as y; a missing value ranks lowest.
RankGE(x, y) == IsNaNum(y) \/ (~IsNaNum(x) /\ Val(x) >= Val(y))

LongestThenScore(best, rows) ==
    \A i \in 1..Len(best), j \in 1..Len(rows) :
        rows[j].query_id = best[i].query_id =>
            /\ RankGE(best[i].alignment_length, rows[j].alignment_length)
            /\ rows[j].alignment_length = best[i].alignment_length
                  => RankGE(best[i].bit_score, rows[j].bit_score)

HighestScore(best, rows) ==
    \A i \in 1..Len(best), j \in 1..Len(rows) :
        rows[j].query_id = best[i].query_id =>
            RankGE(best[i].bit_score, rows[j].bit_score)

\* C1, as claimed: in both scripts the best hit of a query_id has the longest
\* alignment of its rows and, among the rows of that length, the highest
\* bit score.
C1_LongestAlignmentInBoth ==
    /\ AfterSelect => LongestThenScore(df.rows, MergedRows)
    /\ ProcAfterSelect => LongestThenScore(df_best_hits, blast_file)

\* C1, amended: process_blast_results selects the longest alignment and, among
\* the rows of that length, the highest bit score; organize_contigs, which
\* sorts by bit_score alone, selects the highest bit score when the merged
\* frame has a bit_score column.
C1_BestHitRanking ==
    /\ (AfterSelect /\ df.has_bit_score) => HighestScore(df.rows, MergedRows)
    /\ ProcAfterSelect => LongestThenScore(df_best_hits, blast_file)

\* C1: process_blast_results chose, for a query with two rows, the longer
\* alignment over the higher score.
C1_Witness ==
    /\ prog = "process" /\ pc = "taxonomy"
    /\ \E i, j \in 1..Len(blast_file) :
          /\ blast_file[i].query_id = blast_file[j].query_id
          /\ ~IsNaNum(blast_file[i].alignment_length)
          /\ ~IsNaNum(blast_file[j].alignment_length)
          /\ ~IsNaNum(blast_file[i].bit_score)
          /\ ~IsNaNum(blast_file[j].bit_score)
          /\ Val(blast_file[i].alignment_length) > Val(blast_file[j].alignment_length)
          /\ Val(blast_file[i].bit_score) < Val(blast_file[j].bit_score)
          /\ \E k \in 1..Len(df_best_hits) :
                /\ df_best_hits[k].query_id = blast_file[i].query_id
                /\ df_best_hits[k].alignment_length = blast_file[i].alignment_length
                /\ df_best_hits[k].bit_score = blast_file[i].bit_score

\* Every column of every best hit is the one of the first row of its group.
WholeFirstRows(best, sorted, cols) ==
    /\ Len(best) = Cardinality(QueryIds(sorted))
    /\ \A i \in 1..Len(best) :
          \A c \in cols :
              best[i][c] = GroupRows(sorted, best[i].query_id)[1][c]

\* C2, as claimed: there is one best hit per query_id of the input and it is
\* one whole input row, the row the sort places first in its group, missing
\* fields included.
C2_BestHitIsOneRow ==
    /\ AfterSelect =>
          WholeFirstRows(df.rows,
              IF df.has_bit_score THEN SortValues(MergedRows, OrganizeSortKeys)
              ELSE MergedRows,
              OrgNumCols \cup OrgTextCols)
    /\ ProcAfterSelect =>
          WholeFirstRows(df_best_hits, SortValues(blast_file, ProcessSortKeys),
              {"alignment_length", "bit_score", "tax_id"})

\* organize_contigs has just selected its best hits (df is not assigned
\* again in the run).
BestHitsSelected == prog = "organize" /\ pc = "classify"

\* The result list with its files in another order.
Reordered(list, perm) == [i \in 1..Len(list) |-> list[perm[i]]]

SameBestHitsInEveryOrder ==
    \A perm \in RowOrders(Len(blast_results_list)) :
        SelectBestHits(MergedFrame(Reordered(blast_results_list, perm))) = df.rows

\* No two rows of one query_id that come from different files tie on the
\* sort key: the frame has a bit_score column and their scores differ.
NoTieAcrossFiles ==
    /\ \E i \in 1..Len(ReadFrames(blast_results_list)) :
          ReadFrames(blast_results_list)[i].has_bit_score
    /\ \A i, j \in 1..Len(blast_results_list) :
          (i # j /\ Readable(blast_results_list[i]) /\ Readable(blast_results_list[j])) =>
              \A r \in Seq2Set(ReadCsv(blast_results_list[i])),
                 t \in Seq2Set(ReadCsv(blast_results_list[j])) :
                  r.query_id = t.query_id => r.bit_score # t.bit_score

\* C3, as claimed: whatever the order the result files are passed in, the
\* best hit of every query_id is the same, ties on all sort keys included.
C3_AnyFileOrder == BestHitsSelected => SameBestHitsInEveryOrder

\* C3, amended: whatever the order the result files are passed in, the best
\* hit of every query_id is the same, provided no two rows of a query_id from
\* different files tie on bit_score (rows that tie keep their file order).
C3_FileOrderWithoutTies ==
    (BestHitsSelected /\ NoTieAcrossFiles) => SameBestHitsInEveryOrder

\* C3: two files hold a row of the same query_id, the second file's row has
\* the higher score, and it was selected.
C3_Witness ==
    /\ BestHitsSelected /\ NoTieAcrossFiles
    /\ Len(blast_results_list) >= 2
    /\ Readable(blast_results_list[1]) /\ Readable(blast_results_list[2])
    /\ LET r == ReadCsv(blast_results_list[1])[1]
           t == ReadCsv(blast_results_list[2])[1]
       IN  /\ r.query_id = t.query_id
           /\ ~IsNaNum(r.bit_score) /\ ~IsNaNum(t.bit_score)
           /\ Val(r.bit_score) < Val(t.bit_score)
           /\ r.family # t.family
           /\ Len(df.rows) = 1
           /\ df.rows[1].bit_score = t.bit_score
           /\ df.rows[1].family = t.family

-----------------------------------------------------------------------------
(* Properties of the organizer.                                            *)

OrganizeDone == prog = "organize" /\ pc = "done"

\* Every result source is missing, zero-length or without data rows.
AllSourcesEmpty ==
    \A i \in 1..Len(blast_results_list) :
        ~blast_results_list[i].exists \/ blast_results_list[i].rows = <<>>

\* The file that holds the record with the header it came with.
OriginalFile(record, dir) ==
    [path |-> [dir |-> dir, name |-> record.id],
     content |-> <<[header |-> [id |-> record.id, fields |-> <<>>,
                                desc |-> record.description],
                    seq |-> record.seq]>>]

\* C4: when every result source is missing or empty, organize_contigs goes
\* on to its end; then every sequence is in unclassified/ under its own
\* header, nothing is under viruses/ or bacteria/, and the summary holds the
\* "No BLAST hits found" line.
C4_NoHitsPath ==
    (prog = "organize" /\ AllSourcesEmpty) =>
        /\ pc # "done" => ENABLED Next
        /\ pc = "done" =>
              /\ \A i \in 1..Len(fasta_file) :
                    OriginalFile(fasta_file[i], UnclassDir) \in files
              /\ \A f \in files : f.path.dir = UnclassDir
              /\ summary_file # <<>>
              /\ summary_file[1].no_hits

\* C4: a run ended whose only sources were a missing file and an empty one.
C4_Witness ==
    /\ OrganizeDone /\ AllSourcesEmpty
    /\ \E i \in 1..Len(blast_results_list) : blast_results_list[i].exists
    /\ \E i \in 1..Len(blast_results_list) : ~blast_results_list[i].exists
    /\ Cardinality(files) = Len(fasta_file)

\* The best hit of the identifier, if any, is neither of viruses nor of
\* bacteria (compared without case): the identifier gets no record.
NoRecordFor(id) ==
    \A i \in 1..Len(df.rows) :
        df.rows[i].query_id = id =>
            StrLower(StrStrip(PyStr(df.rows[i].superkingdom)))
                \notin {sViruses, sBacteria}

\* C5: a sequence without classification record is never written anywhere
\* but in the top-level unclassified/, and at the end of the run it is there
\* under its own header.
C5_TopLevelUnclassified ==
    AfterSelect =>
        \A i \in 1..Len(fasta_file) :
            NoRecordFor(fasta_file[i].id) =>
                /\ \A f \in files :
                      f.path.name = fasta_file[i].id => f.path.dir = UnclassDir
                /\ pc = "done" => OriginalFile(fasta_file[i], UnclassDir) \in files

\* C5: the run ended with one sequence unclassified because its best hit is
\* of another superkingdom and one because no result file names it.
C5_Witness ==
    /\ OrganizeDone
    /\ \E i \in 1..Len(df.rows) :
          /\ ~Classified(df.rows[i])
          /\ df.rows[i].superkingdom # NaN
          /\ df.rows[i].family = rSiphoviridae
          /\ \E f \in files : f.path.name = df.rows[i].query_id /\ f.path.dir = UnclassDir
    /\ \E i \in 1..Len(fasta_file) :
          /\ fasta_file[i].id \notin QueryIds(df.rows)
          /\ OriginalFile(fasta_file[i], UnclassDir) \in files

AfterClassify == prog = "organize" /\ pc \in {"organize", "summary", "done"}

LowerToken(s) == StrLower(s) = s /\ \A i \in 1..Len(s) : s[i] # " "

\* C6, as claimed: the family of a classification record is never "nan" and
\* never empty; it is a lowercase, underscore-joined token or "unclassified".
C6_FamilyLowercaseToken ==
    AfterClassify =>
        \A q \in DOMAIN contig_info :
            /\ contig_info[q].family # sNan
            /\ contig_info[q].family # <<>>
            /\ \/ contig_info[q].family = sUnclassified
               \/ LowerToken(contig_info[q].family)

BestRow(id) == df.rows[CHOOSE i \in 1..Len(df.rows) : df.rows[i].query_id = id]

\* C7, as claimed: a classified sequence with a family is written at
\* {type}/{family lowercased, spaces as underscores}/{id}.fasta under a
\* header whose rank fields are the row's values as supplied.
C7_LowercasePathRawHeader ==
    OrganizeDone =>
        \A i \in 1..Len(fasta_file) :
            LET id == fasta_file[i].id
            IN  (id \in DOMAIN contig_info /\ contig_info[id].family # sUnclassified) =>
                    \E f \in files :
                        /\ f.path = [dir |-> <<contig_info[id].type,
                                              StrLower(StrReplaceSpace(StrStrip(BestRow(id).family)))>>,
                                     name |-> id]
                        /\ f.content[1].header.fields[2] = BestRow(id).superkingdom
                        /\ f.content[1].header.fields[3] = BestRow(id).family

\* C8: organizing a record whose family is "unclassified" writes it under
\* the enriched header into unclassified/ of its own organism type, and
\* changes neither another file, nor the statistics, nor the unclassified
\* list.
C8_UnclassifiedFamilyStep ==
    [][ ( /\ prog = "organize" /\ pc = "organize"
          /\ rec_idx <= Len(fasta_file)
          /\ rec_idx' = rec_idx + 1
          /\ fasta_file[rec_idx].id \in DOMAIN contig_info
          /\ contig_info[fasta_file[rec_idx].id].family = sUnclassified )
        => LET record == fasta_file[rec_idx]
               info == contig_info[record.id]
               path == [dir |-> <<info.type, sUnclassified>>, name |-> record.id]
           IN  /\ info.type \in {sViruses, sBacteria}
               /\ [path |-> path,
                   content |-> <<[header |-> [id |-> record.id,
                                              fields |-> <<sample_id, info.superkingdom,
                                                           sUnclassified, info.genus,
                                                           info.species>>,
                                              desc |-> StrStrip(record.description)],
                                  seq |-> record.seq]>>] \in files'
               /\ {f \in files' : f.path # path} = {f \in files : f.path # path}
               /\ taxonomy_summary' = taxonomy_summary
               /\ unclassified_contigs' = unclassified_contigs ]_vars

\* C8: a record of a bacterium without family has been written into
\* bacteria/unclassified.
C8_Witness ==
    /\ prog = "organize" /\ pc = "organize"
    /\ \E f \in files :
          /\ f.path.dir = BacteriaDir \o <<sUnclassified>>
          /\ f.content[1].header.fields # <<>>

\* C9: a second run on the tree the first run left ends with the same
\* summary and the same files with the same contents.
C9_Idempotent ==
    (OrganizeDone /\ run = "second") =>
        /\ files = first_run_files[1].files
        /\ summary_file = first_run_files[1].summary

\* C9: the second run ended on a tree that holds a classified and an
\* unclassified sequence.
C9_Witness ==
    /\ OrganizeDone /\ run = "second"
    /\ \E f \in files : f.path.dir = UnclassDir
    /\ \E f \in files : f.path.dir[1] = sViruses /\ f.path.dir[2] # sUnclassified
    /\ ~summary_file[1].no_hits

-----------------------------------------------------------------------------
(* Properties of the lineage resolver.                                     *)

\* get_taxonomy_info is at work on the tax_id of row row_idx.
InTaxLoop == prog = "process" /\ pc = "taxonomy" /\ row_idx <= Len(df_best_hits)

\* The identifier is an integer the database knows, and an ancestor of it
\* (or itself) has the rank.
Provides(tok, rank) ==
    /\ tok.int
    /\ NcbiKnows(tok.n)
    /\ \E a \in Seq2Set(GetLineage(tok.n)) : NcbiNodes[a].rank = rank

NameFrom(tok, rank) ==
    NcbiNodes[CHOOSE a \in Seq2Set(GetLineage(tok.n)) : NcbiNodes[a].rank = rank].name

\* The name the earliest of the first n identifiers gives the rank, if any.
FirstProvided(ids, n, rank) ==
    LET from == {k \in 1..n : Provides(ids[k], rank)}
    IN  IF from = {} THEN PyNone ELSE NameFrom(ids[SetMin(from)], rank)

MergedIsFirstProvided ==
    /\ InTaxLoop =>
          \A rank \in Ranks :
              merged_taxonomy[rank] =
                  FirstProvided(SplitTaxIds(df_best_hits[row_idx].tax_id),
                                tax_idx - 1, rank)
    /\ (prog = "process" /\ pc \in {"taxonomy", "done"}) =>
          \A r \in 1..Len(taxonomy_info) :
              \A rank \in Ranks :
                  taxonomy_info[r][rank] =
                      FirstProvided(SplitTaxIds(df_best_hits[r].tax_id),
                                    Len(SplitTaxIds(df_best_hits[r].tax_id)), rank)

SetRankIsKept ==
    (InTaxLoop /\ row_idx' = row_idx) =>
        \A rank \in Ranks :
            merged_taxonomy[rank] # PyNone =>
                merged_taxonomy'[rank] = merged_taxonomy[rank]

\* C10: in get_taxonomy_info the merged lineage holds, for every rank, the
\* name given by the earliest identifier of the list that has one (None when
\* none has), and a rank once set is not changed by a later identifier.
C10_FirstIdentifierWins == []MergedIsFirstProvided /\ [][SetRankIsKept]_vars

\* C10: two identifiers of different superkingdoms have been merged and the
\* first one's name stands.
C10_Witness ==
    /\ InTaxLoop
    /\ tax_idx = 3
    /\ LET ids == SplitTaxIds(df_best_hits[row_idx].tax_id)
       IN  /\ Provides(ids[1], "superkingdom") /\ Provides(ids[2], "superkingdom")
           /\ NameFrom(ids[1], "superkingdom") # NameFrom(ids[2], "superkingdom")
           /\ merged_taxonomy["superkingdom"] = NameFrom(ids[1], "superkingdom")
           /\ Provides(ids[2], "species") /\ ~Provides(ids[1], "species")
           /\ merged_taxonomy["species"] = NameFrom(ids[2], "species")

\* The identifier is an integer and the database knows it.
Contributes(tok) == tok.int /\ NcbiKnows(tok.n)

\* The lineage merged from a list of identifiers that all contribute.
RECURSIVE MergeAll(_, _)
MergeAll(merged, ids) ==
    IF ids = <<>> THEN merged
    ELSE MergeAll(MergeTaxonomy(merged, GetSingleTaxonomyInfo(Head(ids).n)),
                  Tail(ids))

\* A step over an identifier that is no integer or that the database lacks
\* leaves the merged lineage as it was and goes on to the next identifier.
SkippedIdentifierStep ==
    ( /\ InTaxLoop
      /\ tax_idx <= Len(SplitTaxIds(df_best_hits[row_idx].tax_id))
      /\ ~Contributes(SplitTaxIds(df_best_hits[row_idx].tax_id)[tax_idx])
      /\ tax_idx' # tax_idx )
    => /\ merged_taxonomy' = merged_taxonomy
       /\ tax_idx' = tax_idx + 1
       /\ row_idx' = row_idx
       /\ pc' = pc

\* Whatever the identifiers, the loop can take its next step, and every
\* lineage returned is the one the contributing identifiers alone give.
LineageDespiteBadIdentifiers ==
    /\ InTaxLoop =>
          IF tax_idx <= Len(SplitTaxIds(df_best_hits[row_idx].tax_id))
          THEN ENABLED TaxonomyStep
          ELSE ENABLED TaxonomyReturn
    /\ (prog = "process" /\ pc \in {"taxonomy", "done"}) =>
          \A r \in 1..Len(taxonomy_info) :
              taxonomy_info[r] =
                  MergeAll(EmptyTaxonomy,
                           SelectSeq(SplitTaxIds(df_best_hits[r].tax_id), Contributes))

\* C11: in get_taxonomy_info an identifier that is no integer, or that the
\* database does not know, contributes nothing: the merged lineage after it
\* is the merged lineage before it, the identifiers after it are processed,
\* and the call returns the lineage of the other identifiers.
C11_BadIdentifierSkipped ==
    []LineageDespiteBadIdentifiers /\ [][SkippedIdentifierStep]_vars

\* C11: the first row's lineage was returned from an unknown identifier
\* followed by a known one, and the second row's known identifier has been
\* merged after one that is no integer.
C11_Witness ==
    /\ prog = "process" /\ pc = "taxonomy"
    /\ row_idx = 2 /\ tax_idx = 3 /\ Len(taxonomy_info) = 1
    /\ LET ids1 == SplitTaxIds(df_best_hits[1].tax_id)
           ids2 == SplitTaxIds(df_best_hits[2].tax_id)
       IN  /\ Len(ids1) = 2 /\ Len(ids2) = 2
           /\ ids1[1].int /\ ~NcbiKnows(ids1[1].n)
           /\ Contributes(ids1[2])
           /\ taxonomy_info[1] = GetSingleTaxonomyInfo(ids1[2].n)
           /\ taxonomy_info[1]["species"] # PyNone
           /\ ~ids2[1].int
           /\ Contributes(ids2[2])
           /\ merged_taxonomy = GetSingleTaxonomyInfo(ids2[2].n)
           /\ merged_taxonomy["genus"] # PyNone

-----------------------------------------------------------------------------
(* Properties of the merge of the result files.                            *)

\* organize_contigs has merged its result files and renamed the columns.
Merged == prog = "organize" /\ pc = "select"

\* C12, as claimed: in the merged frame every column name is normalized and
\* names one column only, and every row has its own cells under the
\* normalized names, also when the header lines of the files spell a name
\* in different case or with blanks around it.
C12_OneColumnPerName ==
    Merged =>
        /\ \A p \in 1..Len(df.columns) :
              df.columns[p] = NormalizeColumn(df.columns[p])
        /\ \A c \in OrgCols : Cardinality(Labelled(df, c)) <= 1
        /\ FrameRecords(df) = OwnRows

-----------------------------------------------------------------------------
(* Properties of the ranking of malformed numbers.                         *)

AllDigits(t) == t # <<>> /\ \A i \in 1..Len(t) : t[i] \in Seq2Set(Digits)

\* The cell holds a number: it is not missing and, in a column of text, it
\* spells one.
WellFormed(c) == ~IsNaNum(c) /\ (IsText(c) => AllDigits(c[2]))

\* On no key has a best hit a malformed value while a row of its query_id,
\* equal to it on the keys before, has a well-formed one.
MalformedNotSelected(best, rows, keys) ==
    \A i \in 1..Len(best), j \in 1..Len(rows), k \in 1..Len(keys) :
        ( /\ rows[j].query_id = best[i].query_id
          /\ \A e \in 1..(k - 1) : rows[j][keys[e]] = best[i][keys[e]]
          /\ WellFormed(rows[j][keys[k]]) )
        => WellFormed(best[i][keys[k]])

\* C13, as claimed: in both scripts a row whose sort key is missing or is no
\* number ranks lowest on that key, so it is never selected over a row of
\* its query_id that holds a number there, and no run fails.
C13_MalformedRanksLowest ==
    /\ pc # "failed"
    /\ (AfterSelect /\ df.has_bit_score) =>
          MalformedNotSelected(df.rows, MergedRows, OrganizeSortKeys)
    /\ ProcAfterSelect =>
          MalformedNotSelected(df_best_hits,
                               ReadBlastFrame(blast_file, fasta_file),
                               ProcessSortKeys)

-----------------------------------------------------------------------------
(* Properties of the classification summary.                               *)

\* The run ended on the normal path and wrote its summary.
SummaryWritten == OrganizeDone /\ summary_file # <<>> /\ ~summary_file[1].no_hits

Ascending(seq) == \A p \in 1..(Len(seq) - 1) : StrLess(seq[p], seq[p + 1])

\* The input sequences whose file is in the directory of the family.
OrganizedInto(type, family) ==
    {i \in 1..Len(fasta_file) :
        \E f \in files : f.path = [dir |-> <<type, family>>, name |-> fasta_file[i].id]}

\* The family directories of the organism type that hold a file.
FamiliesOf(type) ==
    {f.path.dir[2] : f \in {g \in files : g.path.dir[1] = type}} \ {sUnclassified}

SectionAsClaimed(section, type) ==
    /\ Ascending([p \in 1..Len(section) |-> section[p].family])
    /\ {section[p].family : p \in 1..Len(section)} = FamiliesOf(type)
    /\ \A p \in 1..Len(section) :
          LET of == OrganizedInto(type, section[p].family)
          IN  /\ section[p].count = Cardinality(of)
              /\ Ascending(section[p].genera)
              /\ Seq2Set(section[p].genera) =
                    {contig_info[fasta_file[i].id].genus : i \in of}
              /\ Ascending(section[p].species)
              /\ Seq2Set(section[p].species) =
                    {contig_info[fasta_file[i].id].species : i \in of}

\* C14: the summary of the normal path lists the viral families, then the
\* bacterial families, each section in ascending order; a family's contig
\* count is the number of input sequences organized into it, its genera and
\* species are the sorted sets of those sequences' genera and species; the
\* unclassified count is the number of sequences without a record.
C14_SummarySortedAndCounted ==
    SummaryWritten =>
        /\ SectionAsClaimed(summary_file[1].viruses, sViruses)
        /\ SectionAsClaimed(summary_file[1].bacteria, sBacteria)
        /\ summary_file[1].unclassified =
              <<Cardinality({i \in 1..Len(fasta_file) :
                               fasta_file[i].id \notin DOMAIN contig_info})>>

\* C14: a summary with two viral families, written after the greater one was
\* organized first, and with one sequence unclassified.
C14_Witness ==
    /\ SummaryWritten
    /\ Len(summary_file[1].viruses) = 2
    /\ summary_file[1].viruses[1].count = 1
    /\ summary_file[1].viruses[2].count = 1
    /\ \E i, j \in 1..Len(fasta_file) :
          /\ i < j
          /\ i \in OrganizedInto(sViruses, summary_file[1].viruses[2].family)
          /\ j \in OrganizedInto(sViruses, summary_file[1].viruses[1].family)
    /\ summary_file[1].unclassified = <<1>>

-----------------------------------------------------------------------------
(* The partition of the input sequences.                                   *)

\* The directories that hold a file of the identifier.
DirsOf(id) == {f.path.dir : f \in {g \in files : g.path.name = id}}

OnUnclassifiedList(id) ==
    \E k \in 1..Len(unclassified_contigs) : unclassified_contigs[k].id = id

\* The directories a classified sequence may be written to: a family
\* directory or unclassified/, under viruses/ or bacteria/.
TypeDirs == {d \in dirs : Len(d) = 2 /\ d[1] \in {sViruses, sBacteria}}

\* The sequence is in one place: either it is on the unclassified list and
\* in no directory of an organism type (and, once the list is written, in
\* the top-level unclassified/), or it is in one directory of one organism
\* type and neither on the list nor in the top-level unclassified/.
InOnePlace(id) ==
    /\ DirsOf(id) \subseteq TypeDirs \cup {UnclassDir}
    /\ IF OnUnclassifiedList(id)
       THEN /\ DirsOf(id) \cap TypeDirs = {}
            /\ Cardinality({k \in 1..Len(unclassified_contigs) :
                               unclassified_contigs[k].id = id}) = 1
            /\ pc \in {"summary", "done"} => DirsOf(id) = {UnclassDir}
       ELSE /\ Cardinality(DirsOf(id)) = 1
            /\ DirsOf(id) \subseteq TypeDirs

RECURSIVE SumCounts(_, _)
SumCounts(byFamily, fams) ==
    IF fams = {} THEN 0
    ELSE LET f == CHOOSE x \in fams : TRUE
         IN  byFamily[f].count + SumCounts(byFamily, fams \ {f})

\* The sum of the contig counts of all families of both organism types.
FamilyContigs ==
    SumCounts(taxonomy_summary[sViruses], DOMAIN taxonomy_summary[sViruses])
    + SumCounts(taxonomy_summary[sBacteria], DOMAIN taxonomy_summary[sBacteria])

\* The sequences seen so far whose record has the family "unclassified".
UnclassifiedFamily(n) ==
    {i \in 1..n : /\ fasta_file[i].id \in DOMAIN contig_info
                  /\ contig_info[fasta_file[i].id].family = sUnclassified}

\* C15: in a first run on a fresh tree that found BLAST results, after every
\* prefix of the sequence loop and at the end, every sequence processed is in
\* one place, no sequence not yet processed is anywhere, and the family
\* contig counts, the sequences of family "unclassified" and the
\* unclassified list add up to the number of sequences processed (at the
\* end: of input sequences).
C15_Partition ==
    (AfterClassify /\ run = "first" /\ (pc = "done" => ~summary_file[1].no_hits)) =>
        /\ \A i \in 1..(rec_idx - 1) : InOnePlace(fasta_file[i].id)
        /\ \A i \in rec_idx..Len(fasta_file) :
              DirsOf(fasta_file[i].id) = {} /\ ~OnUnclassifiedList(fasta_file[i].id)
        /\ FamilyContigs + Cardinality(UnclassifiedFamily(rec_idx - 1))
              + Len(unclassified_contigs) = rec_idx - 1
        /\ pc \in {"summary", "done"} => rec_idx - 1 = Len(fasta_file)

\* C15: the first run ended with one sequence in a family directory, one in
\* unclassified/ of an organism type and one in the top-level unclassified/.
C15_Witness ==
    /\ OrganizeDone /\ run = "first" /\ ~summary_file[1].no_hits
    /\ FamilyContigs = 1
    /\ Cardinality(UnclassifiedFamily(Len(fasta_file))) = 1
    /\ Len(unclassified_contigs) = 1
    /\ \E f \in files : f.path.dir = UnclassDir
    /\ \E f \in files : f.path.dir \in TypeDirs /\ f.path.dir[2] = sUnclassified
    /\ \E f \in files : f.path.dir \in TypeDirs /\ f.path.dir[2] # sUnclassified

=============================================================================
